---- MODULE Spec2Model ----
(***************************************************************************)
(* Model of cs336_data/deduplication.py: exact_line_deduplication, the     *)
(* MinHasher class and minhash_deduplication, over a small file system.    *)
(*                                                                         *)
(* A str is a sequence of one-character strings.  A path is <<dir, name>>. *)
(* The file system maps every path to its content, or to Absent.           *)
(***************************************************************************)
EXTENDS Integers, Sequences, FiniteSets, TLC

VARIABLES
    fs,                 \* the file system: path -> content or Absent
    fs0,                \* the file system before the first run (history)
    input_files,        \* argument: list of paths
    output_directory,   \* argument: directory name
    pc,                 \* position of the driver: which run has completed
    raised,             \* "none", or the exception that ended the last run
    writes,             \* history: the files the last run wrote, in order, each
                        \* [file, content read, output_path, output written]
    line_counts,        \* exact_line_deduplication: hash -> count (defaultdict)
    hash_salt,          \* the interpreter's per-process salt of hash()
    num_hashes,         \* argument of minhash_deduplication and of MinHasher
    num_bands,          \* argument
    ngrams,             \* argument
    jaccard_threshold,  \* argument: the fraction <<numerator, denominator>>
    seed,               \* state of the random module after random.seed(seed)
    all_documents,      \* minhash_deduplication: list of [text, signature, file]
    buckets,            \* minhash_deduplication: dict band_sig -> list of indices,
                        \* as the list of its items in insertion order
    duplicate_indices,  \* minhash_deduplication: set of indices into all_documents
    text,               \* MinHasher: the text given to get_shingles and minhash
    shingles,           \* MinHasher: the result of get_shingles
    signature,          \* MinHasher: the result of minhash
    text2,              \* MinHasher: a second text given to the same hasher
    signature2,         \* MinHasher: the result of minhash on the second text
    similarity          \* MinHasher: the result of jaccard_similarity, a fraction

exact_vars == <<line_counts>>
minhash_vars == <<num_hashes, num_bands, ngrams, jaccard_threshold, seed,
                  all_documents, buckets, duplicate_indices>>
hasher_vars == <<text, shingles, signature, text2, signature2, similarity>>
vars == <<fs, fs0, input_files, output_directory, pc, raised, writes, hash_salt,
          exact_vars, minhash_vars, hasher_vars>>

-----------------------------------------------------------------------------
(* Bounds of the model *)

\* longest file content, in characters
MaxLen == 3
\* largest per-process hash salt
MaxSalt == 1
\* width in bits of the hash arithmetic (32 in the source)
HashBits == 2
\* largest seed given to random.seed
MaxSeed == 3
\* most words of a document given to minhash_deduplication
MaxWords == 2
\* largest shingle size given to get_shingles
MaxNgrams == 3
\* largest num_hashes given to a MinHasher of its own
MaxHashes == 2

-----------------------------------------------------------------------------
(* Characters and str methods *)

LF == "\n"
FF == "\f"
SP == " "

\* str.isspace(): the characters str.strip() and str.split() treat as whitespace
Whitespace == {SP, LF, FF}
\* the line boundaries of str.splitlines(); "\r" never reaches the program,
\* because open(..., 'r') translates it to "\n"
LineBoundaries == {LF, FF}
\* the line boundary of iterating a text file
FileLineBoundaries == {LF}

LineAlphabet == {"a", "b", SP, LF, FF}

CharCode(c) == CASE c = "a" -> 1 [] c = "b" -> 2 [] c = SP -> 3 [] c = LF -> 4 [] c = FF -> 5

RECURSIVE StrsUpTo(_, _)
StrsUpTo(alphabet, n) ==
    IF n = 0 THEN {<<>>}
    ELSE LET shorter == StrsUpTo(alphabet, n - 1)
         IN shorter \cup {Append(s, c) : s \in shorter, c \in alphabet}

RECURSIVE lstrip(_)
lstrip(s) == IF s # <<>> /\ Head(s) \in Whitespace THEN lstrip(Tail(s)) ELSE s

RECURSIVE rstrip(_)
rstrip(s) ==
    IF s # <<>> /\ s[Len(s)] \in Whitespace THEN rstrip(SubSeq(s, 1, Len(s) - 1)) ELSE s

\* str.strip()
strip(s) == rstrip(lstrip(s))

\* splitting after every character of seps, terminators kept; a last piece
\* without terminator is a line, an empty last piece is not
RECURSIVE SplitKeepEnds(_, _, _)
SplitKeepEnds(s, cur, seps) ==
    IF s = <<>> THEN (IF cur = <<>> THEN <<>> ELSE <<cur>>)
    ELSE IF Head(s) \in seps
         THEN <<Append(cur, Head(s))>> \o SplitKeepEnds(Tail(s), <<>>, seps)
         ELSE SplitKeepEnds(Tail(s), Append(cur, Head(s)), seps)

\* for line in f
file_lines(content) == SplitKeepEnds(content, <<>>, FileLineBoundaries)

\* content.splitlines(keepends=True)
splitlines(content) == SplitKeepEnds(content, <<>>, LineBoundaries)

\* ''.join(lines)
RECURSIVE join_lines(_)
join_lines(lines) == IF lines = <<>> THEN <<>> ELSE Head(lines) \o join_lines(Tail(lines))

\* s.endswith('\n')
endswith_newline(s) == s # <<>> /\ s[Len(s)] = LF

\* an injective integer code of a str: 0 for the empty str
RECURSIVE Encode(_)
Encode(s) == IF s = <<>> THEN 0 ELSE Encode(SubSeq(s, 1, Len(s) - 1)) * 6 + CharCode(s[Len(s)])

\* builtin hash() of a str: salted per process, hash('') = 0 under every salt.
\* The 64-bit hash is free of collisions on the strings of the model, so is this.
hash(s, salt) == IF s = <<>> THEN 0 ELSE Encode(s) * (MaxSalt + 1) + salt

-----------------------------------------------------------------------------
(* The file system *)

Absent == <<"ENOENT">>

Dirs == {"in", "alt", "out", "out2"}
Names == {"f1", "f2", "f3"}
Paths == Dirs \X Names

\* Path(output_directory) / input_path.name
output_path_of(dir, p) == <<dir, p[2]>>

EmptyFs == [p \in Paths |-> Absent]

-----------------------------------------------------------------------------
(* exact_line_deduplication *)

\* defaultdict(int): a missing key reads as 0
NoCounts == [h \in {} |-> 0]
count_of(counts, h) == IF h \in DOMAIN counts THEN counts[h] ELSE 0
increment(counts, h) ==
    IF h \in DOMAIN counts THEN [counts EXCEPT ![h] = @ + 1] ELSE counts @@ (h :> 1)

\* lines 21-25: the lines of one file
RECURSIVE count_lines(_, _, _)
count_lines(lines, counts, salt) ==
    IF lines = <<>> THEN counts
    ELSE LET line == Head(lines)
             line_hash == hash(strip(line), salt)
         IN count_lines(Tail(lines),
                        IF strip(line) # <<>> THEN increment(counts, line_hash) ELSE counts,
                        salt)

\* lines 18-25: first pass over all files; open() of a missing file raises
RECURSIVE first_pass(_, _, _, _)
first_pass(f, files, counts, salt) ==
    IF files = <<>> THEN [counts |-> counts, raised |-> "none"]
    ELSE IF f[Head(files)] = Absent THEN [counts |-> counts, raised |-> "FileNotFoundError"]
    ELSE first_pass(f, Tail(files), count_lines(file_lines(f[Head(files)]), counts, salt), salt)

\* a variant of the filter that collects the kept lines last first
RECURSIVE deduplicated_lines_reversed(_, _, _)
deduplicated_lines_reversed(lines, counts, salt) ==
    IF lines = <<>> THEN <<>>
    ELSE LET line == Head(lines)
             stripped == strip(line)
             rest == deduplicated_lines_reversed(Tail(lines), counts, salt)
         IN IF stripped = <<>> THEN rest \o <<line>>
            ELSE IF count_of(counts, hash(stripped, salt)) = 1 THEN rest \o <<line>>
            ELSE rest

\* lines 38-45
RECURSIVE deduplicated_lines(_, _, _)
deduplicated_lines(lines, counts, salt) ==
    IF lines = <<>> THEN <<>>
    ELSE LET line == Head(lines)
             stripped == strip(line)
             rest == deduplicated_lines(Tail(lines), counts, salt)
         IN IF stripped = <<>> THEN <<line>> \o rest
            ELSE IF count_of(counts, hash(stripped, salt)) = 1 THEN <<line>> \o rest
            ELSE rest

\* lines 48-50
written_output(content, kept) ==
    LET output == join_lines(kept)
    IN IF ~endswith_newline(content) /\ endswith_newline(output)
       THEN SubSeq(output, 1, Len(output) - 1)
       ELSE output

\* a variant of the second pass that writes no file for an empty result
RECURSIVE second_pass_nonempty(_, _, _, _, _, _)
second_pass_nonempty(f, files, outdir, counts, salt, log) ==
    IF files = <<>> THEN [fs |-> f, raised |-> "none", writes |-> log]
    ELSE LET input_path == Head(files)
             output_path == output_path_of(outdir, input_path)
             content == f[input_path]
             output == written_output(content,
                                      deduplicated_lines(splitlines(content), counts, salt))
         IN IF content = Absent
            THEN [fs |-> f, raised |-> "FileNotFoundError", writes |-> log]
            ELSE IF output = <<>>
            THEN second_pass_nonempty(f, Tail(files), outdir, counts, salt, log)
            ELSE second_pass_nonempty(
                    [f EXCEPT ![output_path] = output],
                    Tail(files), outdir, counts, salt,
                    Append(log, [file |-> input_path, content |-> content,
                                 output_path |-> output_path, output |-> output]))

\* lines 28-51: second pass, file after file, each read seeing the writes before it
RECURSIVE second_pass(_, _, _, _, _, _)
second_pass(f, files, outdir, counts, salt, log) ==
    IF files = <<>> THEN [fs |-> f, raised |-> "none", writes |-> log]
    ELSE LET input_path == Head(files)
             output_path == output_path_of(outdir, input_path)
             content == f[input_path]
             output == written_output(content,
                                      deduplicated_lines(splitlines(content), counts, salt))
         IN IF content = Absent
            THEN [fs |-> f, raised |-> "FileNotFoundError", writes |-> log]
            ELSE second_pass(
                    [f EXCEPT ![output_path] = output],
                    Tail(files), outdir, counts, salt,
                    Append(log, [file |-> input_path, content |-> content,
                                 output_path |-> output_path, output |-> output]))

\* lines 8-51: the whole function
exact_line_deduplication(f, files, outdir, salt) ==
    LET p1 == first_pass(f, files, NoCounts, salt)
        p2 == second_pass(f, files, outdir, p1.counts, salt, <<>>)
    IN IF p1.raised # "none"
       THEN [fs |-> f, line_counts |-> p1.counts, raised |-> p1.raised, writes |-> <<>>]
       ELSE [fs |-> p2.fs, line_counts |-> p1.counts, raised |-> p2.raised,
             writes |-> p2.writes]

-----------------------------------------------------------------------------
(* class MinHasher *)

\* 2**32 in the source, both the bound of random.randint and the modulus of
\* hash_shingle
Modulus == 2 ^ HashBits

\* the random module: random.seed(seed) fixes the generator's state and every
\* random.randint advances it.  The Mersenne Twister is stood for by a
\* congruential generator with 4 * Modulus states, whose high bits are drawn.
Seeds == 0 .. MaxSeed
RECURSIVE random_state(_, _)
random_state(s, draws) ==
    IF draws = 0 THEN s % (4 * Modulus)
    ELSE (5 * random_state(s, draws - 1) + 3) % (4 * Modulus)
\* the draws-th random.randint(1, 2**32) after random.seed(s): in 1 .. Modulus
randint(s, draws) == 1 + (random_state(s, draws) \div 4)

\* MinHasher.__init__: self.hash_funcs, one (a, b) for each of num_hashes
hash_funcs(k, s) == [i \in 1..k |-> <<randint(s, 2 * i - 1), randint(s, 2 * i)>>]

\* text.split(): the maximal runs of characters that are not whitespace
RECURSIVE split_from(_, _)
split_from(s, cur) ==
    IF s = <<>> THEN (IF cur = <<>> THEN <<>> ELSE <<cur>>)
    ELSE IF Head(s) \in Whitespace
         THEN (IF cur = <<>> THEN <<>> ELSE <<cur>>) \o split_from(Tail(s), <<>>)
         ELSE split_from(Tail(s), Append(cur, Head(s)))
split(s) == split_from(s, <<>>)

\* ' '.join(words)
RECURSIVE join_words(_)
join_words(words) ==
    IF words = <<>> THEN <<>>
    ELSE IF Len(words) = 1 THEN Head(words)
    ELSE Head(words) \o <<SP>> \o join_words(Tail(words))

\* get_shingles with the fallback normalised to the joined words
get_shingles_joined(t, n) ==
    LET words == split(t)
    IN IF Len(words) < n THEN {join_words(words)}
       ELSE {join_words(SubSeq(words, i, i + n - 1)) : i \in 1 .. (Len(words) - n + 1)}

\* MinHasher.get_shingles
get_shingles(t, n) ==
    LET words == split(t)
    IN IF Len(words) < n THEN {t}
       ELSE {join_words(SubSeq(words, i, i + n - 1)) : i \in 1 .. (Len(words) - n + 1)}

\* MinHasher.hash_shingle
hash_shingle(shingle, a, b, salt) == (a * hash(shingle, salt) + b) % Modulus

\* min(...) of a non-empty set of integers
Minimum(S) == CHOOSE x \in S : \A y \in S : x <= y

\* a variant of minhash that hashes every position with the first pair
minhash_first_pair(t, n, funcs, salt) ==
    LET shs == get_shingles(t, n)
    IN [i \in DOMAIN funcs |->
          Minimum({hash_shingle(x, funcs[1][1], funcs[1][2], salt) : x \in shs})]

\* a variant of jaccard_similarity over the sets of values, not the positions
jaccard_similarity_of_sets(sig1, sig2) ==
    IF Len(sig1) # Len(sig2) THEN <<0, 1>>
    ELSE <<Cardinality({sig1[i] : i \in DOMAIN sig1} \cap {sig2[i] : i \in DOMAIN sig2}),
           Len(sig1)>>

\* MinHasher.minhash
minhash(t, n, funcs, salt) ==
    LET sh == get_shingles(t, n)
    IN IF sh = {} THEN [i \in DOMAIN funcs |-> 0]
       ELSE [i \in DOMAIN funcs |->
                Minimum({hash_shingle(x, funcs[i][1], funcs[i][2], salt) : x \in sh})]

\* MinHasher.jaccard_similarity, as the fraction <<numerator, denominator>>
jaccard_similarity(sig1, sig2) ==
    IF Len(sig1) # Len(sig2) THEN <<0, 1>>
    ELSE <<Cardinality({i \in DOMAIN sig1 : sig1[i] = sig2[i]}), Len(sig1)>>

\* sim >= jaccard_threshold, on fractions with positive denominators
at_least(sim, threshold) == sim[1] * threshold[2] >= threshold[1] * sim[2]

-----------------------------------------------------------------------------
(* minhash_deduplication; indices into all_documents count from 1 here *)

\* lines 125-136: read every file; an empty text is skipped
RECURSIVE read_documents(_, _, _, _, _)
read_documents(f, files, n, funcs, salt) ==
    IF files = <<>> THEN [docs |-> <<>>, raised |-> "none"]
    ELSE IF f[Head(files)] = Absent THEN [docs |-> <<>>, raised |-> "FileNotFoundError"]
    ELSE LET t == strip(f[Head(files)])
             rest == read_documents(f, Tail(files), n, funcs, salt)
             doc == [text |-> t, signature |-> minhash(t, n, funcs, salt),
                     file |-> Head(files)]
         IN [docs |-> IF t # <<>> THEN <<doc>> \o rest.docs ELSE rest.docs,
             raised |-> rest.raised]

\* line 139
rows_per_band_of(k, b) == k \div b

\* lines 144-146: signature[start:end]; a slice is clipped to the list
band_sig_of(sig, band, rows) ==
    LET start == band * rows
        end == start + rows
        lo == IF start > Len(sig) THEN Len(sig) ELSE start
        hi == IF end > Len(sig) THEN Len(sig) ELSE end
    IN SubSeq(sig, lo + 1, hi)

\* line 147: buckets[band_sig].append(i); a new key goes last
bucket_append(bs, key, i) ==
    IF \E x \in DOMAIN bs : bs[x].key = key
    THEN [x \in DOMAIN bs |->
            IF bs[x].key = key THEN [bs[x] EXCEPT !.members = Append(@, i)] ELSE bs[x]]
    ELSE Append(bs, [key |-> key, members |-> <<i>>])

\* lines 143-147: the bands 0 .. num_bands - 1 of document i
RECURSIVE add_bands(_, _, _, _, _, _)
add_bands(bs, sig, i, band, b, rows) ==
    IF band >= b THEN bs
    ELSE add_bands(bucket_append(bs, band_sig_of(sig, band, rows), i),
                   sig, i, band + 1, b, rows)

\* lines 142-147
RECURSIVE build_buckets(_, _, _, _, _)
build_buckets(bs, docs, i, b, rows) ==
    IF i > Len(docs) THEN bs
    ELSE build_buckets(add_bands(bs, docs[i].signature, i, 0, b, rows), docs, i + 1, b, rows)

\* lines 155-157: the pairs (bucket[i], bucket[j]), i < j, in loop order
RECURSIVE bucket_pairs(_, _, _)
bucket_pairs(bucket, i, j) ==
    IF i > Len(bucket) THEN <<>>
    ELSE IF j > Len(bucket) THEN bucket_pairs(bucket, i + 1, i + 2)
    ELSE << <<bucket[i], bucket[j]>> >> \o bucket_pairs(bucket, i, j + 1)

\* lines 158-165: one pair
mark_pair(dups, pair, docs, threshold) ==
    IF pair[1] \notin dups /\ pair[2] \notin dups
       /\ at_least(jaccard_similarity(docs[pair[1]].signature, docs[pair[2]].signature),
                   threshold)
    THEN dups \cup {pair[2]}
    ELSE dups

RECURSIVE mark_pairs(_, _, _, _)
mark_pairs(dups, pairs, docs, threshold) ==
    IF pairs = <<>> THEN dups
    ELSE mark_pairs(mark_pair(dups, Head(pairs), docs, threshold), Tail(pairs), docs, threshold)

\* lines 152-165: the buckets in the dict's order
RECURSIVE find_duplicates(_, _, _, _)
find_duplicates(dups, bs, docs, threshold) ==
    IF bs = <<>> THEN dups
    ELSE find_duplicates(
            IF Len(Head(bs).members) > 1
            THEN mark_pairs(dups, bucket_pairs(Head(bs).members, 1, 2), docs, threshold)
            ELSE dups,
            Tail(bs), docs, threshold)

\* lines 168-175: open(output_path, 'w') truncates before the original is read
RECURSIVE write_documents(_, _, _, _, _, _)
write_documents(f, docs, i, dups, outdir, log) ==
    IF i > Len(docs) THEN [fs |-> f, writes |-> log]
    ELSE IF i \in dups THEN write_documents(f, docs, i + 1, dups, outdir, log)
    ELSE LET output_path == output_path_of(outdir, docs[i].file)
             opened == [f EXCEPT ![output_path] = <<>>]
             original_content == opened[docs[i].file]
         IN write_documents([opened EXCEPT ![output_path] = original_content],
                            docs, i + 1, dups, outdir,
                            Append(log, [file |-> docs[i].file,
                                         content |-> original_content,
                                         output_path |-> output_path,
                                         output |-> original_content]))

\* lines 98-175: the whole function
minhash_deduplication(f, files, k, b, n, threshold, outdir, s, salt) ==
    LET rd == read_documents(f, files, n, hash_funcs(k, s), salt)
        bs == build_buckets(<<>>, rd.docs, 1, b, rows_per_band_of(k, b))
        dups == find_duplicates({}, bs, rd.docs, threshold)
        wr == write_documents(f, rd.docs, 1, dups, outdir, <<>>)
    IN IF rd.raised # "none"
       THEN [fs |-> f, all_documents |-> <<>>, buckets |-> <<>>,
             duplicate_indices |-> {}, raised |-> rd.raised, writes |-> <<>>]
       ELSE [fs |-> wr.fs, all_documents |-> rd.docs, buckets |-> bs,
             duplicate_indices |-> dups, raised |-> "none", writes |-> wr.writes]

-----------------------------------------------------------------------------
(* Initial states: the arguments of a call and the files they name *)

Range(seq) == {seq[i] : i \in DOMAIN seq}

\* the files of a call hold any of the given contents, no other file exists
FilesHold(files, contents) ==
    \E stored \in [DOMAIN files -> contents] :
        fs = [p \in Paths |->
                IF \E i \in DOMAIN files : files[i] = p
                THEN stored[CHOOSE i \in DOMAIN files : files[i] = p]
                ELSE Absent]

ExactIdle == line_counts = NoCounts
MinhashIdle ==
    /\ num_hashes = 0 /\ num_bands = 0 /\ ngrams = 0 /\ jaccard_threshold = <<0, 1>>
    /\ seed = 0 /\ all_documents = <<>> /\ buckets = <<>> /\ duplicate_indices = {}
HasherIdle ==
    /\ text = <<>> /\ shingles = {} /\ signature = <<>>
    /\ text2 = <<>> /\ signature2 = <<>> /\ similarity = <<0, 1>>

-----------------------------------------------------------------------------
(* Runs of exact_line_deduplication *)

ExactContents == StrsUpTo(LineAlphabet, MaxLen)

\* <<input_files, output_directory>>: a fresh output directory; two inputs of
\* one base name; the inputs' own directory; an output that is a later input
ExactFresh == << <<"in", "f1">>, <<"in", "f2">> >>
ExactCalls ==
    { << ExactFresh, "out" >>,
      << << <<"in", "f1">>, <<"alt", "f1">> >>, "out" >>,
      << ExactFresh, "in" >>,
      << << <<"alt", "f1">>, <<"in", "f1">> >>, "in" >> }

InitExactOn(calls, contents) ==
    /\ \E call \in calls :
         /\ input_files = call[1]
         /\ output_directory = call[2]
    /\ FilesHold(input_files, contents)
    /\ fs0 = fs
    /\ pc = "exact_start"
    /\ raised = "none"
    /\ writes = <<>>
    /\ hash_salt \in 0..MaxSalt
    /\ ExactIdle /\ MinhashIdle /\ HasherIdle

\* the first run, on the arguments of the call
ExactRun ==
    /\ pc = "exact_start"
    /\ LET r == exact_line_deduplication(fs, input_files, output_directory, hash_salt)
       IN /\ fs' = r.fs
          /\ line_counts' = r.line_counts
          /\ raised' = r.raised
          /\ writes' = r.writes
    /\ pc' = "exact_done"
    /\ UNCHANGED <<fs0, input_files, output_directory, hash_salt, minhash_vars, hasher_vars>>

\* the files a run produced, in the order of the inputs they come from
RECURSIVE produced_files(_, _, _)
produced_files(files, outdir, seen) ==
    IF files = <<>> THEN <<>>
    ELSE LET o == output_path_of(outdir, Head(files))
         IN IF o \in seen THEN produced_files(Tail(files), outdir, seen)
            ELSE <<o>> \o produced_files(Tail(files), outdir, seen \cup {o})

\* the second run, in the same process, on the files the first run produced
ExactRerun ==
    /\ pc = "exact_done"
    /\ raised = "none"
    /\ LET files == produced_files(input_files, output_directory, {})
           r == exact_line_deduplication(fs, files, "out2", hash_salt)
       IN /\ fs' = r.fs
          /\ line_counts' = r.line_counts
          /\ raised' = r.raised
          /\ writes' = r.writes
    /\ pc' = "exact_rerun_done"
    /\ UNCHANGED <<fs0, input_files, output_directory, hash_salt, minhash_vars, hasher_vars>>

InitExact == InitExactOn(ExactCalls, ExactContents \cup {Absent})
NextExact == ExactRun \/ ExactRerun
SpecExact == InitExact /\ [][NextExact]_vars

\* readable inputs of distinct names, written to a fresh directory
InitExactFresh == InitExactOn({<<ExactFresh, "out">>}, ExactContents)
SpecExactFresh == InitExactFresh /\ [][NextExact]_vars

-----------------------------------------------------------------------------
(* Runs of minhash_deduplication *)

DocWords == {<<"a">>, <<"b">>}
RECURSIVE WordSeqsUpTo(_)
WordSeqsUpTo(n) ==
    IF n = 0 THEN {<<>>}
    ELSE LET shorter == WordSeqsUpTo(n - 1)
         IN shorter \cup {Append(ws, w) : ws \in shorter, w \in DocWords}

\* documents: up to MaxWords words with single spaces, the empty file among
\* them; a file of whitespace alone; a document that ends with a newline
DocContents == {join_words(ws) : ws \in WordSeqsUpTo(MaxWords)} \cup {<<LF>>, <<"a", LF>>}

MinhashFresh == << <<"in", "f1">>, <<"in", "f2">>, <<"in", "f3">> >>
MinhashCalls ==
    { << MinhashFresh, "out" >>,
      << << <<"in", "f1">>, <<"alt", "f1">> >>, "out" >>,
      << << <<"in", "f1">>, <<"in", "f2">> >>, "in" >> }

\* num_hashes, num_bands, ngrams, jaccard_threshold
Configurations ==
    { [k |-> 2, b |-> 2, n |-> 1, t |-> <<1, 2>>],
      [k |-> 2, b |-> 1, n |-> 2, t |-> <<1, 1>>],
      [k |-> 3, b |-> 2, n |-> 1, t |-> <<1, 2>>],
      [k |-> 2, b |-> 3, n |-> 1, t |-> <<1, 1>>] }

InitMinhashOn(calls, contents) ==
    /\ \E call \in calls :
         /\ input_files = call[1]
         /\ output_directory = call[2]
    /\ FilesHold(input_files, contents)
    /\ fs0 = fs
    /\ pc = "minhash_start"
    /\ raised = "none"
    /\ writes = <<>>
    /\ hash_salt \in 0..MaxSalt
    /\ \E c \in Configurations :
         /\ num_hashes = c.k /\ num_bands = c.b /\ ngrams = c.n /\ jaccard_threshold = c.t
    /\ seed \in Seeds
    /\ all_documents = <<>> /\ buckets = <<>> /\ duplicate_indices = {}
    /\ ExactIdle /\ HasherIdle

MinhashRun ==
    /\ pc = "minhash_start"
    /\ LET r == minhash_deduplication(fs, input_files, num_hashes, num_bands, ngrams,
                                      jaccard_threshold, output_directory, seed, hash_salt)
       IN /\ fs' = r.fs
          /\ all_documents' = r.all_documents
          /\ buckets' = r.buckets
          /\ duplicate_indices' = r.duplicate_indices
          /\ raised' = r.raised
          /\ writes' = r.writes
    /\ pc' = "minhash_done"
    /\ UNCHANGED <<fs0, input_files, output_directory, hash_salt, exact_vars, hasher_vars,
                   num_hashes, num_bands, ngrams, jaccard_threshold, seed>>

\* the files a run wrote, each once, in the order of their first write
RECURSIVE retained_files(_, _)
retained_files(log, seen) ==
    IF log = <<>> THEN <<>>
    ELSE LET o == Head(log).output_path
         IN IF o \in seen THEN retained_files(Tail(log), seen)
            ELSE <<o>> \o retained_files(Tail(log), seen \cup {o})

\* the second run, with the same arguments, on the files the first run wrote;
\* it is a new process, whose hash() has a salt of its own
MinhashRerun ==
    /\ pc = "minhash_done"
    /\ raised = "none"
    /\ hash_salt' \in 0..MaxSalt
    /\ LET r == minhash_deduplication(fs, retained_files(writes, {}), num_hashes, num_bands,
                                      ngrams, jaccard_threshold, "out2", seed, hash_salt')
       IN /\ fs' = r.fs
          /\ all_documents' = r.all_documents
          /\ buckets' = r.buckets
          /\ duplicate_indices' = r.duplicate_indices
          /\ raised' = r.raised
          /\ writes' = r.writes
    /\ pc' = "minhash_rerun_done"
    /\ UNCHANGED <<fs0, input_files, output_directory, exact_vars, hasher_vars,
                   num_hashes, num_bands, ngrams, jaccard_threshold, seed>>

InitMinhash == InitMinhashOn(MinhashCalls, DocContents \cup {Absent})
NextMinhash == MinhashRun \/ MinhashRerun
SpecMinhash == InitMinhash /\ [][NextMinhash]_vars

\* readable inputs of distinct names, written to a fresh directory
InitMinhashFresh == InitMinhashOn({<<MinhashFresh, "out">>}, DocContents)
SpecMinhashFresh == InitMinhashFresh /\ [][NextMinhash]_vars

-----------------------------------------------------------------------------
(* Calls of the MinHasher methods *)

\* the second text of a comparison: the first text again, or one of these
OtherTexts == { <<"a">>, <<"a", SP, "b", SP, "a">> }

InitHasher ==
    /\ text \in ExactContents
    /\ text2 \in {text} \cup OtherTexts
    /\ signature2 = <<>> /\ similarity = <<0, 1>>
    /\ ngrams \in 1..MaxNgrams
    /\ num_hashes \in 1..MaxHashes
    /\ seed \in Seeds
    /\ hash_salt \in 0..MaxSalt
    /\ shingles = {} /\ signature = <<>>
    /\ num_bands = 0 /\ jaccard_threshold = <<0, 1>>
    /\ all_documents = <<>> /\ buckets = <<>> /\ duplicate_indices = {}
    /\ fs = EmptyFs /\ fs0 = fs /\ input_files = <<>> /\ output_directory = "out"
    /\ pc = "hasher_start"
    /\ raised = "none"
    /\ writes = <<>>
    /\ ExactIdle

\* hasher.get_shingles(text, ngrams)
GetShingles ==
    /\ pc = "hasher_start"
    /\ shingles' = get_shingles(text, ngrams)
    /\ pc' = "shingled"
    /\ UNCHANGED <<fs, fs0, input_files, output_directory, raised, writes, hash_salt,
                   exact_vars, minhash_vars, text, signature, text2, signature2,
                   similarity>>

\* hasher.minhash(text, ngrams)
Minhash ==
    /\ pc = "shingled"
    /\ signature' = minhash(text, ngrams, hash_funcs(num_hashes, seed), hash_salt)
    /\ pc' = "hashed"
    /\ UNCHANGED <<fs, fs0, input_files, output_directory, raised, writes, hash_salt,
                   exact_vars, minhash_vars, text, shingles, text2, signature2,
                   similarity>>

\* hasher.minhash(text2, ngrams), on the same MinHasher object
MinhashOther ==
    /\ pc = "hashed"
    /\ signature2' = minhash(text2, ngrams, hash_funcs(num_hashes, seed), hash_salt)
    /\ pc' = "hashed_both"
    /\ UNCHANGED <<fs, fs0, input_files, output_directory, raised, writes, hash_salt,
                   exact_vars, minhash_vars, text, shingles, signature, text2,
                   similarity>>

\* hasher.jaccard_similarity(signature, signature2)
JaccardSimilarity ==
    /\ pc = "hashed_both"
    /\ similarity' = jaccard_similarity(signature, signature2)
    /\ pc' = "compared"
    /\ UNCHANGED <<fs, fs0, input_files, output_directory, raised, writes, hash_salt,
                   exact_vars, minhash_vars, text, shingles, signature, text2,
                   signature2>>

NextHasher == GetShingles \/ Minhash \/ MinhashOther \/ JaccardSimilarity
SpecHasher == InitHasher /\ [][NextHasher]_vars

-----------------------------------------------------------------------------
(* Everything together *)

Init == InitExact \/ InitMinhash \/ InitHasher
Next ==
    \/ ExactRun \/ ExactRerun
    \/ MinhashRun \/ MinhashRerun
    \/ GetShingles \/ Minhash \/ MinhashOther \/ JaccardSimilarity
Spec == Init /\ [][Next]_vars

-----------------------------------------------------------------------------
(* Vocabulary of the properties *)

RECURSIVE SelectLines(_, _)
SelectLines(lines, blank) ==
    IF lines = <<>> THEN <<>>
    ELSE IF (strip(Head(lines)) = <<>>) = blank
         THEN <<Head(lines)>> \o SelectLines(Tail(lines), blank)
         ELSE SelectLines(Tail(lines), blank)

\* the lines of a text file, terminators kept
LinesOf(content) == SplitKeepEnds(content, <<>>, {LF})
BlankLinesOf(content) == SelectLines(LinesOf(content), TRUE)
\* the trimmed contents of the non-blank lines
NonBlankOf(content) == {strip(l) : l \in Range(SelectLines(LinesOf(content), FALSE))}

\* occurrences of the trimmed content s among the lines of all input files
OccurrencesIn(content, s) ==
    Cardinality({i \in DOMAIN LinesOf(content) : strip(LinesOf(content)[i]) = s})
RECURSIVE GlobalCount(_, _)
GlobalCount(files, s) ==
    IF files = <<>> THEN 0
    ELSE OccurrencesIn(fs0[Head(files)], s) + GlobalCount(Tail(files), s)

RECURSIVE IsSubsequence(_, _)
IsSubsequence(a, b) ==
    IF a = <<>> THEN TRUE
    ELSE IF b = <<>> THEN FALSE
    ELSE IF Head(a) = Head(b) THEN IsSubsequence(Tail(a), Tail(b))
    ELSE IsSubsequence(a, Tail(b))

OutputOf(p) == fs[output_path_of(output_directory, p)]

-----------------------------------------------------------------------------
(* Properties of exact_line_deduplication *)

\* C1: after exact_line_deduplication, for every input file, a non-blank line
\* of the file is in the file's output if and only if its trimmed content
\* occurs exactly once among the non-blank lines of all input files.
C1_UniqueLinesExactlyKept ==
    pc = "exact_done" =>
        \A p \in Range(input_files) :
            /\ OutputOf(p) # Absent
            /\ \A s \in NonBlankOf(fs0[p]) :
                   (s \in NonBlankOf(OutputOf(p))) <=> (GlobalCount(input_files, s) = 1)

\* C2: exact_line_deduplication never removes a blank line: the blank lines
\* of every input file are, unchanged and in order, lines of the file's
\* output, and no blank line is a key of the frequency map.
C2_BlankLinesKept ==
    pc = "exact_done" =>
        /\ \A p \in Range(input_files) :
               /\ OutputOf(p) # Absent
               /\ IsSubsequence(BlankLinesOf(fs0[p]), LinesOf(OutputOf(p)))
        /\ hash(<<>>, hash_salt) \notin DOMAIN line_counts

\* C7: exact_line_deduplication is idempotent: a second run on the files of
\* the first run writes outputs identical to its inputs.
C7_Idempotent ==
    (pc = "exact_rerun_done" /\ raised = "none") =>
        \A o \in Range(produced_files(input_files, output_directory, {})) :
            fs[output_path_of("out2", o)] = fs[o]

-----------------------------------------------------------------------------
(* Vocabulary of the properties of minhash_deduplication *)

Docs == DOMAIN all_documents

\* a candidate pair: the two signatures are identical on a band
SameBand(i, j) ==
    \E band \in 0 .. (num_bands - 1) :
        band_sig_of(all_documents[i].signature, band, rows_per_band_of(num_hashes, num_bands))
        = band_sig_of(all_documents[j].signature, band, rows_per_band_of(num_hashes, num_bands))

\* a verified duplicate pair: a candidate pair with estimated Jaccard >= threshold
Verified(i, j) ==
    /\ i # j
    /\ SameBand(i, j)
    /\ at_least(jaccard_similarity(all_documents[i].signature, all_documents[j].signature),
                jaccard_threshold)

\* the document of the input file p is written to the output
Written(p) == OutputOf(p) # Absent

Completed == pc = "minhash_done" /\ raised = "none"

\* the input files a run of minhash_deduplication retains
RetainedBy(r) == {r.all_documents[i].file : i \in DOMAIN r.all_documents \ r.duplicate_indices}

PermutationsOf(files) ==
    {[i \in DOMAIN files |-> files[f[i]]] :
        f \in {g \in [DOMAIN files -> DOMAIN files] : \A x, y \in DOMAIN files : x # y => g[x] # g[y]}}

-----------------------------------------------------------------------------
(* Properties of minhash_deduplication *)

\* C3: verified duplicate pairs are resolved transitively: of documents A, B, C
\* with verified pairs A-B and B-C but not A-C, exactly one is written.
C3_TransitiveGroups ==
    Completed =>
        \A a, b, c \in Docs :
            (a # c /\ Verified(a, b) /\ Verified(b, c) /\ ~Verified(a, c)) =>
                Cardinality({i \in {a, b, c} : Written(all_documents[i].file)}) = 1

\* C4: the set of files minhash_deduplication retains is the same for every
\* permutation of input_files.
C4_OrderIndependent ==
    Completed =>
        \A files \in PermutationsOf(input_files) :
            RetainedBy(minhash_deduplication(fs0, files, num_hashes, num_bands, ngrams,
                                             jaccard_threshold, output_directory, seed,
                                             hash_salt))
            = {all_documents[i].file : i \in Docs \ duplicate_indices}

\* C5: every input document that is in no verified duplicate pair, an empty or
\* whitespace-only document included, is written with the content of its file.
C5_OthersUntouched ==
    Completed =>
        \A p \in Range(input_files) :
            (\A i, j \in Docs : (all_documents[i].file = p /\ i # j) => ~Verified(i, j)) =>
                OutputOf(p) = fs0[p]

\* C6: exact_line_deduplication and minhash_deduplication leave every input
\* file as it was, whatever the output directory.
C6_InputsUnchanged ==
    pc \in {"exact_done", "minhash_done"} =>
        \A p \in Range(input_files) : fs[p] = fs0[p]

\* C8: when num_bands does not divide num_hashes, minhash_deduplication ends
\* with a configuration error instead of dropping the trailing rows.
C8_IndivisibleBandsSurfaced ==
    (pc = "minhash_done" /\ num_hashes % num_bands # 0) => raised = "ConfigurationError"

-----------------------------------------------------------------------------
(* Properties of MinHasher *)

\* C9: for the empty text get_shingles returns the empty set and minhash
\* returns the all-zero signature of length num_hashes.
C9_EmptyTextSentinel ==
    text = <<>> =>
        /\ pc \in {"shingled", "hashed"} => shingles = {}
        /\ pc = "hashed" => signature = [i \in 1..num_hashes |-> 0]

\* the contiguous n-word sequences of a text
NGramsOf(t, n) ==
    {join_words(SubSeq(split(t), i, i + n - 1)) : i \in 1 .. (Len(split(t)) - n + 1)}

\* C10 as claimed: a text of fewer than n words gives the one-element set of
\* its whole word sequence; a text of at least n words gives its n-word sequences.
C10_ShortTextWordSequence ==
    pc = "shingled" =>
        IF Len(split(text)) < ngrams
        THEN shingles = {join_words(split(text))}
        ELSE shingles = NGramsOf(text, ngrams)

\* C10 as amended: a text of fewer than n words gives the one-element set of
\* the text itself, its whitespace included; a text of at least n words gives
\* its n-word sequences.
C10_ShortTextVerbatim ==
    pc = "shingled" =>
        IF Len(split(text)) < ngrams
        THEN shingles = {text}
        ELSE /\ shingles = NGramsOf(text, ngrams)
             /\ \A x \in shingles : Len(split(x)) = ngrams /\ join_words(split(x)) = x

C10_Witness ==
    /\ pc = "shingled"
    /\ Len(split(text)) = 1 /\ ngrams = 2
    /\ text # join_words(split(text))
    /\ shingles = {text}

-----------------------------------------------------------------------------
(* MinHasher: signatures and their comparison *)

\* the smallest hash value, under the i-th pair of the hasher, of a shingle of t
MinUnderPair(t, i) ==
    LET pair == hash_funcs(num_hashes, seed)[i]
    IN Minimum({hash_shingle(x, pair[1], pair[2], hash_salt) : x \in get_shingles(t, ngrams)})

SignatureOf(sig, t) ==
    /\ Len(sig) = num_hashes
    /\ \A i \in 1..num_hashes : sig[i] = MinUnderPair(t, i)

\* C11: every signature minhash returns has exactly num_hashes entries, whatever
\* the text (empty, shorter than the shingle size, longer) and the n-gram size,
\* and the i-th entry of every signature of one hasher is the minimum under the
\* same i-th pair (a_i, b_i).
C11_SignatureLength ==
    /\ pc \in {"hashed", "hashed_both", "compared"} => SignatureOf(signature, text)
    /\ pc \in {"hashed_both", "compared"} => SignatureOf(signature2, text2)

\* a text shorter than the shingle size and a longer one, under two pairs
C11_Witness ==
    /\ pc = "compared"
    /\ text = <<"a">> /\ text2 = <<"a", SP, "b", SP, "a">>
    /\ ngrams = 2 /\ num_hashes = MaxHashes
    /\ signature # signature2

Agreeing == {i \in 1..num_hashes : signature[i] = signature2[i]}

\* C12: jaccard_similarity of two signatures of one hasher is the number of
\* positions where they agree divided by num_hashes; identical texts get
\* identical signatures and the similarity 1.0.
C12_JaccardOfSignatures ==
    pc = "compared" =>
        /\ similarity = <<Cardinality(Agreeing), num_hashes>>
        /\ text = text2 =>
              /\ signature = signature2
              /\ similarity[1] = similarity[2]
              /\ at_least(similarity, <<1, 1>>)

\* the same non-empty text twice, under two pairs that give different minima
C12_Witness ==
    /\ pc = "compared"
    /\ text = text2 /\ text # <<>>
    /\ num_hashes = MaxHashes
    /\ similarity = <<MaxHashes, MaxHashes>>

-----------------------------------------------------------------------------
(* Failed reads *)

Readable(p) == fs0[p] # Absent
WrittenFiles == {writes[i].file : i \in DOMAIN writes}
ReadFiles == {all_documents[i].file : i \in DOMAIN all_documents}

\* C13: a failed read of one input document aborts neither function: the run
\* ends without an exception, exact_line_deduplication has written every
\* readable input, and minhash_deduplication has read every readable input
\* with a non-empty text and written those it did not mark.
C13_FailedReadSkipped ==
    /\ pc = "exact_done" =>
          /\ raised = "none"
          /\ \A i \in DOMAIN input_files :
                Readable(input_files[i]) => input_files[i] \in WrittenFiles
    /\ pc = "minhash_done" =>
          /\ raised = "none"
          /\ \A i \in DOMAIN input_files :
                Readable(input_files[i]) /\ strip(fs0[input_files[i]]) # <<>>
                    => input_files[i] \in ReadFiles
          /\ \A i \in Docs : i \notin duplicate_indices
                    => all_documents[i].file \in WrittenFiles

-----------------------------------------------------------------------------
(* exact_line_deduplication: what is written for each file *)

ExactCompleted == pc = "exact_done" /\ raised = "none"

\* every line the second pass reads from this content is removed by the filter
EveryLineRemoved(content) ==
    /\ content # <<>>
    /\ \A k \in DOMAIN splitlines(content) :
          LET stripped == strip(splitlines(content)[k])
          IN /\ stripped # <<>>
             /\ count_of(line_counts, hash(stripped, hash_salt)) # 1

\* the last write to a path is what the path holds
LastWriteTo(i) ==
    \A j \in DOMAIN writes : writes[j].output_path = writes[i].output_path => j <= i

\* C14: a completed run of exact_line_deduplication has written one output
\* file for every input file, at the file's name under the output directory;
\* a file whose every line is removed is written too, as an empty file.
C14_EveryInputWritten ==
    ExactCompleted =>
        /\ Len(writes) = Len(input_files)
        /\ \A i \in DOMAIN writes :
              /\ writes[i].file = input_files[i]
              /\ writes[i].output_path = output_path_of(output_directory, input_files[i])
              /\ fs[writes[i].output_path] # Absent
              /\ LastWriteTo(i) => fs[writes[i].output_path] = writes[i].output
              /\ EveryLineRemoved(writes[i].content) => writes[i].output = <<>>

\* a file of two lines, both removed, stands empty in the output directory
C14_Witness ==
    /\ ExactCompleted
    /\ \E i \in DOMAIN writes :
          /\ EveryLineRemoved(writes[i].content)
          /\ Len(splitlines(writes[i].content)) = 2
          /\ LastWriteTo(i)
          /\ fs[writes[i].output_path] = <<>>

\* C15: the output written for a file ends with a line terminator exactly when
\* the content read from the file does, whatever the filter removed.
C15_TerminatorMatchesOriginal ==
    pc = "exact_done" =>
        \A i \in DOMAIN writes :
            endswith_newline(writes[i].output) <=> endswith_newline(writes[i].content)

\* the lines of an output, its last one with the terminator the trim took off
WrittenLinesAre(output, lines) ==
    \/ IsSubsequence(splitlines(output), lines)
    \/ IsSubsequence(splitlines(output \o <<LF>>), lines)

-----------------------------------------------------------------------------
(* minhash_deduplication: buckets, output paths, reruns, groups *)

\* C17: the documents of one bucket agree on all rows of one and the same band:
\* every pair the resolution loop takes from a bucket is a pair of two
\* different documents whose signatures are identical on a band of one index.
C17_BucketsPerBand ==
    Completed =>
        \A x \in DOMAIN buckets :
            \A m, n \in DOMAIN buckets[x].members :
                m < n =>
                    /\ buckets[x].members[m] # buckets[x].members[n]
                    /\ SameBand(buckets[x].members[m], buckets[x].members[n])

\* C18: two distinct input documents are never written to the same output
\* path, by exact_line_deduplication or by minhash_deduplication.
C18_DistinctOutputPaths ==
    pc \in {"exact_done", "minhash_done"} =>
        \A i, j \in DOMAIN writes :
            writes[i].file # writes[j].file => writes[i].output_path # writes[j].output_path

\* C19: minhash_deduplication run again, with the same arguments, on the files
\* it retained marks no document as a duplicate.
C19_MinhashIdempotent ==
    pc = "minhash_rerun_done" => duplicate_indices = {}

\* C20: every document minhash_deduplication excludes has an earlier, different
\* document whose estimated similarity to it reaches the threshold; so the
\* first document of the input is never excluded.
C20_GroupKeepsFirst ==
    Completed =>
        \A j \in duplicate_indices :
            \E i \in Docs :
                /\ i < j
                /\ at_least(jaccard_similarity(all_documents[i].signature,
                                               all_documents[j].signature),
                            jaccard_threshold)

-----------------------------------------------------------------------------
(* exact_line_deduplication: the lines of the two passes *)

\* C21: both passes cut a file into the same lines, so every non-blank line
\* the second pass examines was counted by the first: its count in the
\* frequency map is at least 1.
C21_PassesSegmentAlike ==
    pc = "exact_done" =>
        \A i \in DOMAIN writes :
            /\ splitlines(writes[i].content) = file_lines(writes[i].content)
            /\ \A k \in DOMAIN splitlines(writes[i].content) :
                  LET stripped == strip(splitlines(writes[i].content)[k])
                  IN stripped # <<>> =>
                        count_of(line_counts, hash(stripped, hash_salt)) >= 1

====
